---- MODULE Spec2Model ----
(***************************************************************************)
(* Model of autokeras/tuners/greedy.py: the grouping index (TrieNode,      *)
(* Trie) and the greedy oracle (GreedyOracle).                             *)
(*                                                                         *)
(* A qualified name is a sequence of one-character strings, so that        *)
(* str.split("/") is modelled by what it does.  A trie is a function from  *)
(* node paths (sequences of segments, the root being the empty path) to    *)
(* TrieNode records; a node's children dict is the sequence of its keys in *)
(* insertion order.  An optional Python value is a sequence of length 0    *)
(* (None) or 1.                                                            *)
(***************************************************************************)
EXTENDS Integers, Sequences, FiniteSets, TLC

VARIABLES
    \* Trie under construction (Trie.insert applied call after call)
    trie,               \* path -> TrieNode
    inserted,           \* history: the hyperparameters handed to insert, in order
    insert_raised,      \* whether the last insert ended in an exception
    \* GreedyOracle and its collaborators
    space,              \* self.hyperparameters.space
    max_collisions,     \* self._max_collisions
    initial_hps,        \* self.initial_hps
    tried_initial_hps,  \* self._tried_initial_hps
    seed_state,         \* self._seed_state
    tried_so_far,       \* self._tried_so_far
    trials,             \* value mappings of the trials created so far
    best_trials,        \* self.get_best_trials(): <<>> or <<values of the best trial>>
    call,               \* per caller: position in _populate_space and its locals
    results,            \* history: what each finished decision call returned
    round_trips,        \* history: how many times the state was exported and imported
    seeds_used,         \* history: the counter values handed to random_sample, in order
    own_values,         \* self.hyperparameters.values
    mode                \* how callers reach the oracle: "single", "locked", "unlocked"

vars == <<trie, inserted, insert_raised, space, max_collisions, initial_hps,
          tried_initial_hps, seed_state, tried_so_far, trials, best_trials,
          call, results, round_trips, seeds_used, own_values, mode>>

trieVars == <<trie, inserted, insert_raised>>
oracleVars == <<space, max_collisions, initial_hps, tried_initial_hps, seed_state,
                tried_so_far, trials, best_trials, call, results, round_trips, seeds_used, own_values, mode>>

----------------------------------------------------------------------------
(* Bounds *)

MaxInserts == 3
MaxCalls == 3
MaxCallsABZ == 2
MaxInitial == 2
MaxRoundTrips == 1
MaxCallsConc == 4

----------------------------------------------------------------------------
(* Generic helpers *)

None == <<>>
Some(v) == <<v>>

Range(s) == {s[k] : k \in 1..Len(s)}

Last(s) == s[Len(s)]

\* Python all(flags)
All(flags) == \A k \in 1..Len(flags) : flags[k]

----------------------------------------------------------------------------
(* Hyperparameters and qualified names *)

\* A hyperparameter: its name and the values random_sample can return.
HP(name) == [name |-> name, choices |-> {0, 1}]

\* Position of the first "/" in s at or after position k, or 0.
RECURSIVE FindSlash(_, _)
FindSlash(s, k) ==
    IF k > Len(s) THEN 0
    ELSE IF s[k] = "/" THEN k
    ELSE FindSlash(s, k + 1)

\* long_name.split("/")
RECURSIVE Split(_)
Split(s) ==
    LET j == FindSlash(s, 1)
    IN  IF j = 0 THEN <<s>>
        ELSE <<SubSeq(s, 1, j - 1)>> \o Split(SubSeq(s, j + 1, Len(s)))

----------------------------------------------------------------------------
(* TrieNode and Trie *)

\* TrieNode.__init__
TrieNode == [num_leaves |-> 0, children |-> <<>>, hp |-> None]

\* Trie.__init__: a root node only
EmptyTrie == (<<>> :> TrieNode)

\* TrieNode.is_leaf
is_leaf(t, node) == Len(t[node].children) = 0

\* The for loop of Trie.insert over names[k..]: creates the missing nodes
\* and tells whether any was created.
RECURSIVE InsertWalk(_, _, _, _)
InsertWalk(t, names, k, new_word) ==
    IF k > Len(names) THEN [trie |-> t, new_word |-> new_word]
    ELSE LET current_node == SubSeq(names, 1, k - 1)
             child == SubSeq(names, 1, k)
         IN  IF names[k] \notin Range(t[current_node].children)
             THEN InsertWalk(
                      (child :> TrieNode) @@
                          [t EXCEPT ![current_node].children = Append(@, names[k])],
                      names, k + 1, TRUE)
             ELSE InsertWalk(t, names, k + 1, new_word)

\* if new_word: counting the new word at its last node only
CountLeavesLastOnly(t, nodes_on_path, new_word) ==
    IF new_word
    THEN [p \in DOMAIN t |->
            IF p \in nodes_on_path /\ \A q \in nodes_on_path : Len(q) <= Len(p)
            THEN [t[p] EXCEPT !.num_leaves = @ + 1] ELSE t[p]]
    ELSE t

\* if new_word: for node in nodes_on_path: node.num_leaves += 1
CountLeaves(t, nodes_on_path, new_word) ==
    IF new_word
    THEN [p \in DOMAIN t |->
            IF p \in nodes_on_path THEN [t[p] EXCEPT !.num_leaves = @ + 1] ELSE t[p]]
    ELSE t

\* Trie.insert
insert(t, hp) ==
    LET names == Split(hp.name)
        w == InsertWalk(t, names, 1, FALSE)
        nodes_on_path == {SubSeq(names, 1, k) : k \in 0..Len(names)}
        t1 == [w.trie EXCEPT ![names].hp = Some(hp)]
    IN  CountLeaves(t1, nodes_on_path, w.new_word)

\* Trie._get_all_nodes: the node and then, child after child, their subtrees
RECURSIVE get_all_nodes(_, _)
RECURSIVE get_all_nodes_from(_, _, _)
get_all_nodes_from(t, node, k) ==
    IF k > Len(t[node].children) THEN <<>>
    ELSE get_all_nodes(t, Append(node, t[node].children[k]))
            \o get_all_nodes_from(t, node, k + 1)
get_all_nodes(t, node) == <<node>> \o get_all_nodes_from(t, node, 1)

\* Trie.nodes
nodes(t) == get_all_nodes(t, <<>>)

\* Trie.get_hps: a list of optional hyperparameters ([node.hp] at a leaf)
RECURSIVE get_hps(_, _)
RECURSIVE get_hps_from(_, _, _)
get_hps_from(t, node, k) ==
    IF k > Len(t[node].children) THEN <<>>
    ELSE get_hps(t, Append(node, t[node].children[k])) \o get_hps_from(t, node, k + 1)
get_hps(t, node) ==
    IF is_leaf(t, node) THEN <<t[node].hp>>
    ELSE get_hps_from(t, node, 1)

----------------------------------------------------------------------------
(* Trie under a sequence of inserts *)

\* Qualified names handed to insert: well-formed ones, names that are
\* segment-prefixes of others, and names with an empty segment.
TrieNames == {
    <<"a">>, <<"b">>,
    <<"a", "/", "x">>, <<"a", "/", "y">>, <<"b", "/", "z">>,
    <<"a", "/", "x", "/", "y">>,
    <<>>, <<"/">>, <<"a", "/">>, <<"/", "a">>, <<"a", "/", "/", "x">> }

InitTrie ==
    /\ trie = EmptyTrie
    /\ inserted = <<>>
    /\ insert_raised = FALSE

\* One call trie.insert(hp); str.split and the dict operations never raise.
Insert(hp) ==
    /\ Len(inserted) < MaxInserts
    /\ trie' = insert(trie, hp)
    /\ inserted' = Append(inserted, hp)
    /\ insert_raised' = FALSE

----------------------------------------------------------------------------
(* GreedyOracle: collaborators *)

Callers == {1, 2}

SpaceEmpty == <<>>
SpaceX == <<HP(<<"x">>)>>
SpaceXY == <<HP(<<"x">>), HP(<<"y">>)>>
SpaceABZ == <<HP(<<"a", "/", "x">>), HP(<<"a", "/", "y">>), HP(<<"b", "/", "z">>)>>

HpNames(sp) == {sp[k].name : k \in 1..Len(sp)}

\* self.hyperparameters.values: every hyperparameter of the space at its default
OwnValues(sp) == [n \in HpNames(sp) |-> 0]

\* Value mappings a caller supplies as initial sets
InitialPool(sp) == {[n \in HpNames(sp) |-> v] : v \in {0, 1}}

SeqsUpTo(S, n) == UNION {[1..m -> S] : m \in 0..n}

\* self._compute_values_hash(values): a digest of the mapping's sorted
\* key=value pairs, equal for equal mappings and only for them
compute_values_hash(values) == {<<k, values[k]>> : k \in DOMAIN values}

\* the values of a hash-able candidate after hps.values[name] = v
SetValue(values, name, v) ==
    [n \in DOMAIN values \cup {name} |-> IF n = name THEN v ELSE values[n]]

IdleCall == [pc |-> "idle", index |-> 0, i |-> 0, hp_list |-> <<>>,
             best_hps |-> <<>>, collisions |-> 0, hps |-> <<>>,
             values |-> None, status |-> "NONE", phase |-> "none",
             ncand |-> 0, nsel |-> 0, exhausted |-> FALSE,
             ncoll |-> 0, cand_draw |-> 0, ndraws |-> 0, steps |-> 0,
             entry |-> <<>>]

----------------------------------------------------------------------------
(* GreedyOracle *)

\* _select_hps, lines 117-119: trie = Trie(); for hp in space: trie.insert(hp)
RECURSIVE BuildTrie(_, _)
BuildTrie(sp, k) ==
    IF k = 0 THEN EmptyTrie ELSE insert(BuildTrie(sp, k - 1), sp[k])

\* trie.get_hps(node) as a list of hyperparameters
Group(t, node) == LET g == get_hps(t, node) IN [k \in 1..Len(g) |-> g[k][1]]

\* _select_hps: the lists np.random.choice can make it return.  Every node
\* has weight 1 / num_leaves, so every node can be drawn.
select_hps(sp) ==
    LET t == BuildTrie(sp, Len(sp))
        all_nodes == nodes(t)
    IN  IF Len(all_nodes) <= 1 THEN {<<>>}
        ELSE {Group(t, all_nodes[k]) : k \in 1..Len(all_nodes)}

\* _generate_hp_values taking the oracle's own values whatever the trials
BestHpsOwn == own_values

\* _generate_hp_values, lines 164-168
BestHps ==
    IF best_trials # <<>> THEN best_trials[1] ELSE own_values

\* lines 172-178 giving the sampled values to every key of the copy
RECURSIVE ResampleAll(_, _, _, _)
ResampleAll(values, hp_list, sample, k) ==
    IF k > Len(hp_list) THEN values
    ELSE ResampleAll([n \in DOMAIN values \cup {hp_list[k].name} |-> sample[k]],
                     hp_list, sample, k + 1)

\* _generate_hp_values, lines 172-178: the copy of best_hps with the
\* hyperparameters of hp_list[k..] set to the sampled values
RECURSIVE Resample(_, _, _, _)
Resample(values, hp_list, sample, k) ==
    IF k > Len(hp_list) THEN values
    ELSE Resample(SetValue(values, hp_list[k].name, sample[k]), hp_list, sample, k + 1)

Samples(hp_list) ==
    {s \in [1..Len(hp_list) -> {0, 1}] : \A k \in 1..Len(hp_list) : s[k] \in hp_list[k].choices}

\* Decision calls a behaviour may hold, by the size of the space
CallLimit ==
    IF mode # "single" THEN MaxCallsConc
    ELSE IF space = SpaceABZ THEN MaxCallsABZ ELSE MaxCalls

\* The oracles constructed: a space, _max_collisions and how many initial
\* sets the caller may supply
Scenarios == {
    [space |-> SpaceEmpty, max_collisions |-> 1, initial |-> MaxInitial],
    [space |-> SpaceX, max_collisions |-> 3, initial |-> MaxInitial],
    [space |-> SpaceXY, max_collisions |-> 1, initial |-> MaxInitial],
    [space |-> SpaceABZ, max_collisions |-> 1, initial |-> 0] }

\* Whether every candidate lines 172-178 can build has its hash in the memo
Exhausted ==
    \A hp_list \in select_hps(space) : \A sample \in Samples(hp_list) :
        compute_values_hash(Resample(BestHps, hp_list, sample, 1)) \in tried_so_far

InFlight == Cardinality({p \in Callers : call[p].pc # "idle"})

\* _next_initial_hps scanning the sets from the last one
LastUntried ==
    IF \E k \in 1..Len(initial_hps) : ~tried_initial_hps[k]
    THEN CHOOSE k \in 1..Len(initial_hps) :
            /\ ~tried_initial_hps[k]
            /\ \A j \in (k + 1)..Len(initial_hps) : tried_initial_hps[j]
    ELSE 0

\* _next_initial_hps, lines 133-134: the first index whose flag is false, or 0
FirstUntried ==
    IF \E k \in 1..Len(initial_hps) : ~tried_initial_hps[k]
    THEN CHOOSE k \in 1..Len(initial_hps) :
            /\ ~tried_initial_hps[k]
            /\ \A j \in 1..(k - 1) : tried_initial_hps[j]
    ELSE 0

\* GreedyOracle.__init__ with the Oracle base's fresh bookkeeping
InitOracle ==
    /\ \E sc \in Scenarios :
          /\ space = sc.space
          /\ max_collisions = sc.max_collisions
          /\ initial_hps \in SeqsUpTo(InitialPool(space), sc.initial)
    /\ tried_initial_hps = [k \in 1..Len(initial_hps) |-> FALSE]
    /\ seed_state = 0
    /\ tried_so_far = {}
    /\ trials = {}
    /\ best_trials = <<>>
    /\ call = [p \in Callers |-> IdleCall]
    /\ results = <<>>
    /\ round_trips = 0
    /\ seeds_used = <<>>
    /\ own_values = OwnValues(space)
    /\ mode = "single"

\* What a decision call finds when it is entered
Entry == [tried_so_far |-> tried_so_far, tried_initial_hps |-> tried_initial_hps,
          seed_state |-> seed_state, trials |-> trials, best_trials |-> best_trials,
          own_values |-> own_values]

\* Who may enter _populate_space: one caller; or two callers, one at a time
\* behind a lock; or two callers with nothing between them
MayEnter(p) ==
    /\ mode = "single" => p = 1
    /\ mode # "unlocked" => InFlight = 0

\* _populate_space is entered; line 139
PopulateSpace(p) ==
    /\ call[p].pc = "idle"
    /\ Len(results) + InFlight < CallLimit
    /\ MayEnter(p)
    /\ call' = [call EXCEPT ![p] =
                  IF ~All(tried_initial_hps)
                  THEN [IdleCall EXCEPT !.pc = "next_initial", !.phase = "initial",
                                        !.steps = 1, !.entry = Entry]
                  ELSE [IdleCall EXCEPT !.pc = "loop", !.phase = "greedy",
                                        !.exhausted = Exhausted,
                                        !.steps = 1, !.entry = Entry]]
    /\ UNCHANGED <<space, max_collisions, initial_hps, tried_initial_hps,
                   seed_state, tried_so_far, trials, best_trials, results, round_trips, seeds_used, own_values, mode>>

\* _next_initial_hps, lines 133-134: find the first untried set; falling
\* off the loop returns None, which line 141 wraps in a RUNNING result
NextInitialTest(p) ==
    /\ call[p].pc = "next_initial"
    /\ call' = [call EXCEPT ![p] =
                  IF FirstUntried = 0
                  THEN [@ EXCEPT !.steps = @ + 1, !.pc = "done", !.status = "RUNNING", !.values = None]
                  ELSE [@ EXCEPT !.steps = @ + 1, !.pc = "set_flag", !.index = FirstUntried]]
    /\ UNCHANGED <<space, max_collisions, initial_hps, tried_initial_hps,
                   seed_state, tried_so_far, trials, best_trials, results, round_trips, seeds_used, own_values, mode>>

\* _next_initial_hps marking every set as tried, not only the one it returns
NextInitialSetAll(p) ==
    /\ call[p].pc = "set_flag"
    /\ tried_initial_hps' = [k \in 1..Len(tried_initial_hps) |-> TRUE]
    /\ call' = [call EXCEPT ![p].steps = @ + 1, ![p].pc = "done",
                            ![p].status = "RUNNING",
                            ![p].values = Some(initial_hps[call[p].index])]
    /\ UNCHANGED <<space, max_collisions, initial_hps,
                   seed_state, tried_so_far, trials, best_trials, results,
                   round_trips, seeds_used, own_values, mode>>

\* _next_initial_hps returning the set without line 135's flag assignment
NextInitialSetNoFlag(p) ==
    /\ call[p].pc = "set_flag"
    /\ call' = [call EXCEPT ![p].steps = @ + 1, ![p].pc = "done",
                            ![p].status = "RUNNING",
                            ![p].values = Some(initial_hps[call[p].index])]
    /\ UNCHANGED <<space, max_collisions, initial_hps, tried_initial_hps,
                   seed_state, tried_so_far, trials, best_trials, results,
                   round_trips, seeds_used, own_values, mode>>

\* _next_initial_hps, lines 135-136, and the return of lines 141-144
NextInitialSet(p) ==
    /\ call[p].pc = "set_flag"
    /\ tried_initial_hps' = [tried_initial_hps EXCEPT ![call[p].index] = TRUE]
    /\ call' = [call EXCEPT ![p].steps = @ + 1, ![p].pc = "done", ![p].status = "RUNNING",
                            ![p].values = Some(initial_hps[call[p].index])]
    /\ UNCHANGED <<space, max_collisions, initial_hps,
                   seed_state, tried_so_far, trials, best_trials, results, round_trips, seeds_used, own_values, mode>>

\* for i in range(self._max_collisions), line 146; lines 158-161 when it ends
LoopTest(p) ==
    /\ call[p].pc = "loop"
    /\ call' = [call EXCEPT ![p] =
                  IF call[p].i < max_collisions
                  THEN [@ EXCEPT !.steps = @ + 1, !.pc = "select"]
                  ELSE [@ EXCEPT !.steps = @ + 1, !.pc = "done", !.status = "STOPPED", !.values = None]]
    /\ UNCHANGED <<space, max_collisions, initial_hps, tried_initial_hps,
                   seed_state, tried_so_far, trials, best_trials, results, round_trips, seeds_used, own_values, mode>>

\* How many nodes one _select_hps draws, lines 121-129: none when line 122 returns
draws_node(sp) == IF Len(nodes(BuildTrie(sp, Len(sp)))) <= 1 THEN 0 ELSE 1

\* line 147 with a _generate_hp_values that leaves out collisions = 0 (line 170)
SelectHpsKeepsCount(p) ==
    /\ call[p].pc = "select"
    /\ \E hp_list \in select_hps(space) :
          call' = [call EXCEPT ![p].steps = @ + 1, ![p].pc = "generate",
                               ![p].hp_list = hp_list,
                               ![p].best_hps = BestHps,
                               ![p].nsel = @ + 1,
                               ![p].ndraws = @ + draws_node(space)]
    /\ UNCHANGED <<space, max_collisions, initial_hps, tried_initial_hps,
                   seed_state, tried_so_far, trials, best_trials, results,
                   round_trips, seeds_used, own_values, mode>>

\* line 147 (_select_hps) and the entry of _generate_hp_values, lines 164-170
SelectHps(p) ==
    /\ call[p].pc = "select"
    /\ \E hp_list \in select_hps(space) :
          call' = [call EXCEPT ![p].steps = @ + 1, ![p].pc = "generate", ![p].hp_list = hp_list,
                               ![p].best_hps = BestHps, ![p].collisions = 0,
                               ![p].nsel = @ + 1,
                               ![p].ndraws = @ + draws_node(space)]
    /\ UNCHANGED <<space, max_collisions, initial_hps, tried_initial_hps,
                   seed_state, tried_so_far, trials, best_trials, results, round_trips, seeds_used, own_values, mode>>

\* lines 172-178 with the counter raised after the loop: every sample of
\* one candidate takes the same counter value
SampleLoopOneSeed(hp_list, k, seed, used) ==
    [seed_state |-> seed + Len(hp_list),
     used |-> used \o [j \in 1..Len(hp_list) |-> seed]]

\* lines 172-178 with self._seed_state += 1 after the for loop: one counter
\* value per candidate, taken whether or not the group has a member
SampleLoopPerCandidate(hp_list, k, seed, used) ==
    [seed_state |-> seed + 1,
     used |-> used \o [j \in 1..Len(hp_list) |-> seed]]

\* The counter through the for loop of lines 172-178: each random_sample
\* takes the counter as it stands, and the counter then goes up by one
RECURSIVE SampleLoop(_, _, _, _)
SampleLoop(hp_list, k, seed, used) ==
    IF k > Len(hp_list) THEN [seed_state |-> seed, used |-> used]
    ELSE SampleLoop(hp_list, k + 1, seed + 1, Append(used, seed))

\* lines 172-178 with hps = best_hps for hps = copy.deepcopy(best_hps): the
\* samples are written into the best trial's values, or the oracle's own
GenerateInPlace(p) ==
    /\ call[p].pc = "generate"
    /\ \E sample \in Samples(call[p].hp_list) :
          LET hps == Resample(call[p].best_hps, call[p].hp_list, sample, 1)
          IN  /\ call' = [call EXCEPT ![p].steps = @ + 1, ![p].pc = "check",
                                      ![p].hps = hps, ![p].best_hps = hps,
                                      ![p].ncand = @ + 1,
                                      ![p].cand_draw = call[p].nsel]
              /\ IF best_trials # <<>>
                 THEN /\ best_trials' = <<hps>>
                      /\ trials' = (trials \ {best_trials[1]}) \cup {hps}
                      /\ own_values' = own_values
                 ELSE /\ own_values' = hps
                      /\ UNCHANGED <<trials, best_trials>>
    /\ LET r == SampleLoop(call[p].hp_list, 1, seed_state, <<>>)
       IN  /\ seed_state' = r.seed_state
           /\ seeds_used' = seeds_used \o r.used
    /\ UNCHANGED <<space, max_collisions, initial_hps, tried_initial_hps,
                   tried_so_far, results, round_trips, mode>>

\* one candidate, lines 172-178: the samples go into a deep copy of best_hps
Generate(p) ==
    /\ call[p].pc = "generate"
    /\ \E sample \in Samples(call[p].hp_list) :
          call' = [call EXCEPT ![p].steps = @ + 1, ![p].pc = "check",
                               ![p].hps = Resample(call[p].best_hps, call[p].hp_list, sample, 1),
                               ![p].ncand = @ + 1,
                               ![p].cand_draw = call[p].nsel]
    /\ LET r == SampleLoop(call[p].hp_list, 1, seed_state, <<>>)
       IN  /\ seed_state' = r.seed_state
           /\ seeds_used' = seeds_used \o r.used
    /\ UNCHANGED <<space, max_collisions, initial_hps, tried_initial_hps,
                   tried_so_far, trials, best_trials, results, round_trips,
                   own_values, mode>>

\* the collision test giving up one collision earlier (< for <=)
CheckCollisionStrict(p) ==
    /\ call[p].pc = "check"
    /\ call' = [call EXCEPT ![p] =
                  IF compute_values_hash(call[p].hps) \in tried_so_far
                  THEN IF call[p].collisions + 1 < max_collisions
                       THEN [@ EXCEPT !.steps = @ + 1, !.pc = "generate", !.collisions = @ + 1,
                                      !.ncoll = @ + 1]
                       ELSE [@ EXCEPT !.steps = @ + 1, !.pc = "after", !.collisions = @ + 1,
                                      !.ncoll = @ + 1, !.values = None]
                  ELSE [@ EXCEPT !.steps = @ + 1, !.pc = "add"]]
    /\ UNCHANGED <<space, max_collisions, initial_hps, tried_initial_hps,
                   seed_state, tried_so_far, trials, best_trials, results, round_trips, seeds_used, own_values, mode>>

\* the collision test returning None on the first collision, so that the
\* for loop of _populate_space selects a group again
CheckCollisionReselects(p) ==
    /\ call[p].pc = "check"
    /\ call' = [call EXCEPT ![p] =
                  IF compute_values_hash(call[p].hps) \in tried_so_far
                  THEN [@ EXCEPT !.steps = @ + 1, !.pc = "after", !.collisions = @ + 1,
                                 !.ncoll = @ + 1, !.values = None]
                  ELSE [@ EXCEPT !.steps = @ + 1, !.pc = "add"]]
    /\ UNCHANGED <<space, max_collisions, initial_hps, tried_initial_hps,
                   seed_state, tried_so_far, trials, best_trials, results,
                   round_trips, seeds_used, own_values, mode>>

\* the collision test without the give-up of lines 184-186: every
\* collision continues the while loop
CheckCollisionNoLimit(p) ==
    /\ call[p].pc = "check"
    /\ call' = [call EXCEPT ![p] =
                  IF compute_values_hash(call[p].hps) \in tried_so_far
                  THEN [@ EXCEPT !.steps = @ + 1, !.pc = "generate",
                                 !.collisions = @ + 1, !.ncoll = @ + 1]
                  ELSE [@ EXCEPT !.steps = @ + 1, !.pc = "add"]]
    /\ UNCHANGED <<space, max_collisions, initial_hps, tried_initial_hps,
                   seed_state, tried_so_far, trials, best_trials, results,
                   round_trips, seeds_used, own_values, mode>>

\* the collision test, lines 181-186
CheckCollision(p) ==
    /\ call[p].pc = "check"
    /\ call' = [call EXCEPT ![p] =
                  IF compute_values_hash(call[p].hps) \in tried_so_far
                  THEN IF call[p].collisions + 1 <= max_collisions
                       THEN [@ EXCEPT !.steps = @ + 1, !.pc = "generate", !.collisions = @ + 1,
                                      !.ncoll = @ + 1]
                       ELSE [@ EXCEPT !.steps = @ + 1, !.pc = "after", !.collisions = @ + 1,
                                      !.ncoll = @ + 1, !.values = None]
                  ELSE [@ EXCEPT !.steps = @ + 1, !.pc = "add"]]
    /\ UNCHANGED <<space, max_collisions, initial_hps, tried_initial_hps,
                   seed_state, tried_so_far, trials, best_trials, results, round_trips, seeds_used, own_values, mode>>

\* lines 187-189 without self._tried_so_far.add(values_hash)
AddTriedForgets(p) ==
    /\ call[p].pc = "add"
    /\ call' = [call EXCEPT ![p].steps = @ + 1, ![p].pc = "after", ![p].values = Some(call[p].hps)]
    /\ UNCHANGED <<space, max_collisions, initial_hps, tried_initial_hps,
                   seed_state, tried_so_far, trials, best_trials, results, round_trips, seeds_used, own_values, mode>>

\* lines 187-189 assigning {values_hash} where the code adds to the set
AddTriedReplaces(p) ==
    /\ call[p].pc = "add"
    /\ tried_so_far' = {compute_values_hash(call[p].hps)}
    /\ call' = [call EXCEPT ![p].steps = @ + 1, ![p].pc = "after",
                            ![p].values = Some(call[p].hps)]
    /\ UNCHANGED <<space, max_collisions, initial_hps, tried_initial_hps,
                   seed_state, trials, best_trials, results, round_trips,
                   seeds_used, own_values, mode>>

\* lines 187-189
AddTried(p) ==
    /\ call[p].pc = "add"
    /\ tried_so_far' = tried_so_far \cup {compute_values_hash(call[p].hps)}
    /\ call' = [call EXCEPT ![p].steps = @ + 1, ![p].pc = "after", ![p].values = Some(call[p].hps)]
    /\ UNCHANGED <<space, max_collisions, initial_hps, tried_initial_hps,
                   seed_state, trials, best_trials, results, round_trips, seeds_used, own_values, mode>>

\* back in _populate_space, lines 150-156
AfterGenerate(p) ==
    /\ call[p].pc = "after"
    /\ call' = [call EXCEPT ![p] =
                  IF call[p].values = None
                  THEN [@ EXCEPT !.steps = @ + 1, !.pc = "loop", !.i = @ + 1]
                  ELSE [@ EXCEPT !.steps = @ + 1, !.pc = "done", !.status = "RUNNING"]]
    /\ UNCHANGED <<space, max_collisions, initial_hps, tried_initial_hps,
                   seed_state, tried_so_far, trials, best_trials, results, round_trips, seeds_used, own_values, mode>>

\* The result reaches the caller, which records a trial for a RUNNING one.
Return(p) ==
    /\ call[p].pc = "done"
    /\ results' = Append(results,
                         [status |-> call[p].status, values |-> call[p].values,
                          phase |-> call[p].phase, index |-> call[p].index])
    /\ trials' = IF call[p].status = "RUNNING" /\ call[p].values # None
                 THEN trials \cup {call[p].values[1]} ELSE trials
    /\ call' = [call EXCEPT ![p] = IdleCall]
    /\ UNCHANGED <<space, max_collisions, initial_hps, tried_initial_hps,
                   seed_state, tried_so_far, best_trials, round_trips, seeds_used, own_values, mode>>

\* A trial ends and the ranking makes it the best one.
EndTrial ==
    /\ InFlight = 0
    /\ \E v \in trials : best_trials' = <<v>> /\ best_trials # <<v>>
    /\ UNCHANGED <<space, max_collisions, initial_hps, tried_initial_hps,
                   seed_state, tried_so_far, trials, call, results, round_trips, seeds_used, own_values, mode>>

----------------------------------------------------------------------------
(* get_state / set_state *)

\* list(self._tried_so_far): the memo's elements in some order
ListsOf(S) == {l \in [1..Cardinality(S) -> S] : Range(l) = S}

\* Oracle.get_state of the base class: the seed counter and the memo as a list
BaseGetState(tried_list) ==
    [seed_state |-> seed_state, tried_so_far |-> tried_list]

\* GreedyOracle.get_state: state.update({...})
get_state(tried_list) ==
    [n \in {"seed_state", "tried_so_far", "initial_hps", "tried_initial_hps"} |->
        CASE n = "initial_hps" -> initial_hps
          [] n = "tried_initial_hps" -> tried_initial_hps
          [] OTHER -> BaseGetState(tried_list)[n]]

\* Oracle.set_state of the base class
BaseSetState(state) ==
    /\ seed_state' = state["seed_state"]
    /\ tried_so_far' = Range(state["tried_so_far"])

\* set_state that builds fresh flags, as __init__ does, instead of taking the saved ones
set_state_fresh_flags(state) ==
    /\ BaseSetState(state)
    /\ initial_hps' = state["initial_hps"]
    /\ tried_initial_hps' = [k \in 1..Len(state["initial_hps"]) |-> FALSE]

\* GreedyOracle.set_state
set_state(state) ==
    /\ BaseSetState(state)
    /\ initial_hps' = state["initial_hps"]
    /\ tried_initial_hps' = state["tried_initial_hps"]

\* oracle.set_state(oracle.get_state()) between two decision calls
RoundTrip ==
    /\ InFlight = 0
    /\ round_trips < MaxRoundTrips
    /\ \E tried_list \in ListsOf(tried_so_far) : set_state(get_state(tried_list))
    /\ round_trips' = round_trips + 1
    /\ UNCHANGED <<space, max_collisions, trials, best_trials, call, results,
                   seeds_used, own_values, mode>>

----------------------------------------------------------------------------

Step(p) ==
    \/ PopulateSpace(p)
    \/ NextInitialTest(p)
    \/ NextInitialSet(p)
    \/ LoopTest(p)
    \/ SelectHps(p)
    \/ Generate(p)
    \/ CheckCollision(p)
    \/ AddTried(p)
    \/ AfterGenerate(p)
    \/ Return(p)

Init == InitTrie /\ InitOracle

Next ==
    \/ (\E p \in Callers : Step(p)) /\ UNCHANGED trieVars
    \/ EndTrial /\ UNCHANGED trieVars

Spec == Init /\ [][Next]_vars

NextState ==
    \/ Next
    \/ RoundTrip /\ UNCHANGED trieVars

SpecState == Init /\ [][NextState]_vars

\* Two callers share one oracle on the space {x}, with one initial set or
\* none; in a behaviour they either take a lock around _populate_space or
\* call it with nothing between them.
InitConcurrent ==
    /\ InitTrie
    /\ space = SpaceX
    /\ max_collisions = 1
    /\ initial_hps \in SeqsUpTo(InitialPool(space), 1)
    /\ tried_initial_hps = [k \in 1..Len(initial_hps) |-> FALSE]
    /\ seed_state = 0
    /\ tried_so_far = {}
    /\ trials = {}
    /\ best_trials = <<>>
    /\ call = [p \in Callers |-> IdleCall]
    /\ results = <<>>
    /\ round_trips = 0
    /\ seeds_used = <<>>
    /\ own_values = OwnValues(space)
    /\ mode \in {"locked", "unlocked"}

SpecConcurrent == InitConcurrent /\ [][Next]_vars

NextTrie == (\E n \in TrieNames : Insert(HP(n))) /\ UNCHANGED oracleVars

InitTrieOnly ==
    /\ InitTrie
    /\ space = SpaceEmpty
    /\ max_collisions = 1
    /\ initial_hps = <<>>
    /\ tried_initial_hps = <<>>
    /\ seed_state = 0
    /\ tried_so_far = {}
    /\ trials = {}
    /\ best_trials = <<>>
    /\ call = [p \in Callers |-> IdleCall]
    /\ results = <<>>
    /\ round_trips = 0
    /\ seeds_used = <<>>
    /\ own_values = OwnValues(space)
    /\ mode = "single"

SpecTrie == InitTrieOnly /\ [][NextTrie]_vars

----------------------------------------------------------------------------
(* Properties of the oracle *)

Running(r) == r.status = "RUNNING"
GreedyRunning(r) == r.phase = "greedy" /\ r.status = "RUNNING" /\ r.values # None

\* A finished greedy-phase decision call of caller p, before it returns
GreedyDone(p) == call[p].pc = "done" /\ call[p].phase = "greedy"

GroupNames(hp_list) == {hp_list[k].name : k \in 1..Len(hp_list)}

\* C1: with N initial sets, decision call k <= N returns RUNNING with
\* initial set k as its values, and every later call is a greedy-phase
\* call (with N = 0 the first one already), whatever the trials, the best
\* trial and the memo hold.
InitialSetPrecedence ==
    \A k \in 1..Len(results) :
        IF k <= Len(initial_hps)
        THEN /\ results[k].phase = "initial"
             /\ results[k].status = "RUNNING"
             /\ results[k].values = Some(initial_hps[k])
        ELSE results[k].phase = "greedy"

\* Two different initial sets were replayed, a trial became the best one,
\* and the third call was a greedy-phase call.
InitialSetPrecedenceWitness ==
    /\ Len(initial_hps) = 2
    /\ initial_hps[1] # initial_hps[2]
    /\ Len(results) = 3
    /\ results[3].phase = "greedy"
    /\ best_trials # <<>>

\* C2: no two greedy-phase results returned with RUNNING have the same
\* value-mapping hash.
NoDuplicates ==
    \A j, k \in 1..Len(results) :
        (j < k /\ GreedyRunning(results[j]) /\ GreedyRunning(results[k]))
            => compute_values_hash(results[j].values[1])
                 # compute_values_hash(results[k].values[1])

\* A greedy-phase call ends RUNNING after a candidate of it collided with an
\* earlier greedy-phase result that was built on another baseline.
NoDuplicatesWitness ==
    \E p \in Callers :
        /\ GreedyDone(p)
        /\ call[p].status = "RUNNING"
        /\ call[p].collisions >= 1
        /\ \E k \in 1..Len(results) : GreedyRunning(results[k])
        /\ call[p].best_hps # OwnValues(space)

\* C3: in a greedy-phase call that returns RUNNING, every hyperparameter
\* outside the group of the successful attempt has the value it has in the
\* baseline: the best trial's values, or the oracle's own values when there
\* is no trial.
GreedyLocality ==
    \A p \in Callers :
        (GreedyDone(p) /\ call[p].status = "RUNNING") =>
            LET baseline == IF best_trials = <<>> THEN OwnValues(space)
                            ELSE best_trials[1]
                v == call[p].values[1]
            IN  \A n \in (DOMAIN baseline \cup DOMAIN v) \ GroupNames(call[p].hp_list) :
                    /\ n \in DOMAIN v
                    /\ n \in DOMAIN baseline
                    /\ v[n] = baseline[n]

\* A RUNNING greedy-phase result built on a best trial that differs from the
\* oracle's own values, with a group that leaves a hyperparameter out.
GreedyLocalityWitness ==
    \E p \in Callers :
        /\ GreedyDone(p)
        /\ call[p].status = "RUNNING"
        /\ best_trials # <<>>
        /\ best_trials[1] # OwnValues(space)
        /\ GroupNames(call[p].hp_list) # {}
        /\ GroupNames(call[p].hp_list) # HpNames(space)

\* C4 as stated: a greedy-phase call entered with every configuration
\* already tried returns STOPPED after at most max_collisions candidates.
ExhaustionWithinMaxCollisions ==
    \A p \in Callers :
        (GreedyDone(p) /\ call[p].exhausted) =>
            /\ call[p].status = "STOPPED"
            /\ call[p].values = None
            /\ call[p].ncand <= max_collisions

\* C4 amended: such a call returns STOPPED with no values after exactly
\* max_collisions group selections and max_collisions + 1 candidates for
\* each of them.
ExhaustionStops ==
    \A p \in Callers :
        (GreedyDone(p) /\ call[p].exhausted) =>
            /\ call[p].status = "STOPPED"
            /\ call[p].values = None
            /\ call[p].nsel = max_collisions
            /\ call[p].ncand = max_collisions * (max_collisions + 1)

\* max_collisions = 3 and a space of 2 configurations, both tried: the call
\* ends after 12 candidates.
ExhaustionStopsWitness ==
    \E p \in Callers :
        /\ GreedyDone(p)
        /\ call[p].exhausted
        /\ max_collisions = 3
        /\ space = SpaceX
        /\ Cardinality(tried_so_far) = 2
        /\ call[p].ncand = 12

MemoComplete ==
    \A k \in 1..Len(results) :
        (Running(results[k]) /\ results[k].values # None)
            => compute_values_hash(results[k].values[1]) \in tried_so_far

----------------------------------------------------------------------------
(* Properties of the trie *)

InsertedNames == {inserted[k].name : k \in 1..Len(inserted)}

\* node is a prefix of the segment path of name
Under(node, name) ==
    LET names == Split(name)
    IN  Len(node) <= Len(names) /\ SubSeq(names, 1, Len(node)) = node

\* empty string or an empty segment
Malformed(name) == \E k \in 1..Len(Split(name)) : Split(name)[k] = <<>>

WellFormedInserts == \A name \in InsertedNames : ~Malformed(name)

\* C6: after any sequence of inserts (of names without empty segments, the
\* ones C8 sets apart), in any order and with names that are segment-prefixes
\* of others, every node's num_leaves is the number of distinct inserted
\* names whose terminal node lies in the node's subtree.
LeafCountInvariant ==
    WellFormedInserts =>
        \A node \in DOMAIN trie :
            trie[node].num_leaves
                = Cardinality({name \in InsertedNames : Under(node, name)})

\* C7: after at least one insert of hyperparameters with distinct names
\* (without empty segments), get_hps(root) holds every inserted
\* hyperparameter exactly once and nothing else, a name that is a
\* segment-prefix of another included.
LeafCoverage ==
    (/\ inserted # <<>>
     /\ WellFormedInserts
     /\ Cardinality(InsertedNames) = Len(inserted)) =>
        LET got == get_hps(trie, <<>>)
        IN  /\ Len(got) = Len(inserted)
            /\ \A k \in 1..Len(inserted) : Some(inserted[k]) \in Range(got)

\* C8: insert of a hyperparameter whose name is empty or has an empty
\* segment ends in an error and leaves the trie unchanged.
MalformedNamesFailFast ==
    [][(inserted' # inserted /\ Malformed(Last(inserted').name))
          => (insert_raised' /\ trie' = trie)]_vars

----------------------------------------------------------------------------
(* The collision budget of one decision call *)

\* C11 as stated: one collision count runs through a greedy-phase call, so
\* no call returns RUNNING after more than max_collisions collisions.
RunningWithinOneBudget ==
    \A p \in Callers :
        (GreedyDone(p) /\ call[p].status = "RUNNING")
            => call[p].ncoll <= max_collisions

\* C11: the collision count belongs to one group selection and starts at 0
\* with each of the at most max_collisions selections of a call.  A
\* selection is given up when its count exceeds max_collisions; a call
\* returns RUNNING with at most max_collisions collisions on its last
\* selection and max_collisions + 1 on every earlier one, and STOPPED
\* only after max_collisions * (max_collisions + 1) collisions.
BudgetPerSelection ==
    \A p \in Callers :
        call[p].phase = "greedy" =>
            /\ call[p].collisions <= max_collisions + 1
            /\ call[p].ncoll <= max_collisions * (max_collisions + 1)
            /\ (call[p].pc = "done" /\ call[p].status = "RUNNING") =>
                  /\ call[p].collisions <= max_collisions
                  /\ call[p].i < max_collisions
                  /\ call[p].ncoll = call[p].i * (max_collisions + 1) + call[p].collisions
            /\ (call[p].pc = "done" /\ call[p].status = "STOPPED") =>
                  /\ call[p].i = max_collisions
                  /\ call[p].ncoll = max_collisions * (max_collisions + 1)

\* A call returns RUNNING after more collisions than max_collisions: its
\* first selection was given up and a later one produced the mapping.
BudgetPerSelectionWitness ==
    \E p \in Callers :
        /\ GreedyDone(p)
        /\ call[p].status = "RUNNING"
        /\ call[p].ncoll > max_collisions
        /\ call[p].nsel >= 2

\* C12 as stated: every candidate of a call after the first is generated
\* from a group selection made after the previous candidate.
FreshSelectionPerCandidate ==
    \A p \in Callers :
        (call[p].pc = "generate" /\ call[p].ncand >= 1)
            => call[p].nsel > call[p].cand_draw

\* C12: after a collision the next candidate is generated from the same
\* group selection as long as that selection has had at most
\* max_collisions collisions; a group is selected again only when the
\* selection is given up, so every earlier selection of the call has
\* produced max_collisions + 1 candidates.
RetryKeepsGroup ==
    \A p \in Callers :
        call[p].pc = "generate" =>
            /\ call[p].ncand = (call[p].nsel - 1) * (max_collisions + 1) + call[p].collisions
            /\ call[p].collisions <= max_collisions
            /\ call[p].ncand >= 1 =>
                  IF call[p].collisions >= 1
                  THEN call[p].cand_draw = call[p].nsel
                  ELSE call[p].cand_draw = call[p].nsel - 1

\* A candidate collided and the next one is about to be generated from
\* the same group selection; the call has also selected a group twice.
RetryKeepsGroupWitness ==
    \E p \in Callers :
        /\ call[p].pc = "generate"
        /\ call[p].collisions >= 1
        /\ call[p].cand_draw = call[p].nsel
        /\ call[p].nsel >= 2

----------------------------------------------------------------------------
(* The seed counter *)

\* Caller p generates one candidate in this step
GenerateStep(p) == call[p].pc = "generate" /\ call'[p].pc = "check"

NoRepeat(l) == \A j, k \in 1..Len(l) : j # k => l[j] # l[k]

\* C13: the seed counter never decreases; generating one candidate for a
\* group of g hyperparameters advances it by exactly g, the k-th value
\* being sampled with the counter as it stands after k - 1 increments, so
\* that no two samples take the same counter value; no other step
\* changes it, so a replay-phase call and an attempt on an empty group
\* leave it as it was.
SeedCounter ==
    /\ [](/\ NoRepeat(seeds_used)
          /\ \A p \in Callers :
                (call[p].pc = "done" /\ call[p].phase = "initial")
                    => seed_state = call[p].entry.seed_state)
    /\ [][/\ seed_state' >= seed_state
          /\ \A p \in Callers :
                GenerateStep(p) =>
                    LET g == Len(call[p].hp_list)
                    IN  /\ seed_state' = seed_state + g
                        /\ seeds_used' =
                             seeds_used \o [k \in 1..g |-> seed_state + (k - 1)]
          /\ (\A p \in Callers : ~GenerateStep(p))
                => UNCHANGED <<seed_state, seeds_used>>]_vars

\* A candidate for a group of two hyperparameters has just been generated
\* by a call whose earlier candidate collided, after a replay-free start.
SeedCounterWitness ==
    \E p \in Callers :
        /\ call[p].pc = "check"
        /\ Len(call[p].hp_list) = 2
        /\ call[p].ncoll >= 1
        /\ Len(seeds_used) >= 3

----------------------------------------------------------------------------
(* The memo of tried hashes *)

\* C14: the memo never loses an element; a greedy-phase call that returns
\* RUNNING has added exactly one hash, that of the mapping it returns,
\* which was not in the memo when the call began; a call that returns
\* STOPPED and a replay-phase call leave the memo as they found it.
MemoGrowth ==
    /\ [](\A p \in Callers :
            call[p].pc = "done" =>
                IF call[p].phase = "greedy" /\ call[p].status = "RUNNING"
                THEN LET h == compute_values_hash(call[p].values[1])
                     IN  /\ h \notin call[p].entry.tried_so_far
                         /\ tried_so_far = call[p].entry.tried_so_far \cup {h}
                ELSE tried_so_far = call[p].entry.tried_so_far)
    /\ [][tried_so_far \subseteq tried_so_far']_vars

\* A greedy-phase call that began with a non-empty memo returns RUNNING
\* after one of its candidates collided.
MemoGrowthWitness ==
    \E p \in Callers :
        /\ GreedyDone(p)
        /\ call[p].status = "RUNNING"
        /\ call[p].entry.tried_so_far # {}
        /\ call[p].ncoll >= 1
        /\ Cardinality(tried_so_far) = Cardinality(call[p].entry.tried_so_far) + 1

----------------------------------------------------------------------------
(* The flags of the initial sets *)

TrueFlags(flags) == {k \in 1..Len(flags) : flags[k]}

\* C15: there is one flag per initial set; the true flags are a prefix of
\* the list; no flag goes from true to false; a replay-phase call turns
\* exactly one flag true and a greedy-phase call changes none; once every
\* flag is true no call is a replay-phase call.
InitialFlags ==
    /\ [](/\ Len(tried_initial_hps) = Len(initial_hps)
          /\ \A j, k \in 1..Len(tried_initial_hps) :
                (j < k /\ tried_initial_hps[k]) => tried_initial_hps[j]
          /\ \A p \in Callers :
                call[p].pc = "done" =>
                    IF call[p].phase = "initial"
                    THEN \E k \in 1..Len(tried_initial_hps) :
                            /\ k \notin TrueFlags(call[p].entry.tried_initial_hps)
                            /\ TrueFlags(tried_initial_hps) =
                                 TrueFlags(call[p].entry.tried_initial_hps) \cup {k}
                    ELSE /\ tried_initial_hps = call[p].entry.tried_initial_hps
                         /\ All(tried_initial_hps))
    /\ [][/\ Len(tried_initial_hps') = Len(tried_initial_hps)
          /\ \A k \in 1..Len(tried_initial_hps) :
                tried_initial_hps[k] => tried_initial_hps'[k]
          /\ \A p \in Callers :
                (All(tried_initial_hps) /\ call[p].pc = "idle")
                    => call'[p].phase # "initial"]_vars

\* Two initial sets were replayed by two calls, and a greedy-phase call
\* has finished after them.
InitialFlagsWitness ==
    \E p \in Callers :
        /\ GreedyDone(p)
        /\ Len(initial_hps) = 2
        /\ Len(results) = 2
        /\ results[1].phase = "initial"
        /\ results[2].phase = "initial"

----------------------------------------------------------------------------
(* The baseline of a greedy-phase call *)

\* The baseline of the call of caller p, from what the call found on entry
EntryBaseline(p) ==
    IF call[p].entry.best_trials # <<>> THEN call[p].entry.best_trials[1]
    ELSE call[p].entry.own_values

\* C16: a decision call leaves the values of the best trial, of every
\* other recorded trial and of the oracle's own hyperparameter space as
\* it found them, and every candidate is the baseline found on entry
\* with only the hyperparameters of the selected group written.
BaselineUntouched ==
    /\ [](\A p \in Callers :
            call[p].pc # "idle" =>
                /\ best_trials = call[p].entry.best_trials
                /\ trials = call[p].entry.trials
                /\ own_values = call[p].entry.own_values
                /\ call[p].pc \in {"generate", "check", "add"} =>
                      call[p].best_hps = EntryBaseline(p)
                /\ call[p].pc \in {"check", "add"} =>
                      /\ DOMAIN call[p].hps = DOMAIN EntryBaseline(p)
                      /\ \A n \in DOMAIN call[p].hps \ GroupNames(call[p].hp_list) :
                            call[p].hps[n] = EntryBaseline(p)[n])
    /\ [][own_values' = own_values]_vars

\* The second candidate of a call differs from its baseline, which is the
\* best trial's values.
BaselineUntouchedWitness ==
    \E p \in Callers :
        /\ call[p].pc = "check"
        /\ call[p].ncand >= 2
        /\ call[p].entry.best_trials # <<>>
        /\ call[p].hps # EntryBaseline(p)

----------------------------------------------------------------------------
(* The empty search space *)

\* C17: on a space without hyperparameters a greedy-phase call selects
\* the empty group without drawing a node, its candidates are the
\* baseline itself, it returns RUNNING with the baseline when the
\* baseline's hash was not in the memo and STOPPED with no values when
\* it was, and it does not advance the seed counter.
DegenerateSpace ==
    \A p \in Callers :
        (space = SpaceEmpty /\ call[p].phase = "greedy") =>
            /\ call[p].hp_list = <<>>
            /\ call[p].ndraws = 0
            /\ seed_state = call[p].entry.seed_state
            /\ call[p].pc \in {"check", "add"} => call[p].hps = EntryBaseline(p)
            /\ call[p].pc = "done" =>
                  IF compute_values_hash(EntryBaseline(p))
                        \notin call[p].entry.tried_so_far
                  THEN /\ call[p].status = "RUNNING"
                       /\ call[p].values = Some(EntryBaseline(p))
                  ELSE /\ call[p].status = "STOPPED"
                       /\ call[p].values = None

\* On the empty space one greedy-phase call has returned the baseline and
\* the next one ends STOPPED after its candidates collided.
DegenerateSpaceWitness ==
    \E p \in Callers :
        /\ space = SpaceEmpty
        /\ GreedyDone(p)
        /\ call[p].status = "STOPPED"
        /\ call[p].ncand >= 2
        /\ \E k \in 1..Len(results) : GreedyRunning(results[k])

----------------------------------------------------------------------------
(* Termination of a decision call *)

\* The most candidates and the most statements of one decision call
CandidateBound == max_collisions * (max_collisions + 1)
StepBound == max_collisions * (2 * max_collisions + 5) + 2

\* The call of caller p stands at a statement that can be executed
CanStep(p) ==
    /\ call[p].pc \in {"next_initial", "set_flag", "loop", "select",
                       "generate", "check", "add", "after"}
    /\ call[p].pc = "set_flag" => call[p].index \in 1..Len(initial_hps)
    /\ call[p].pc = "select" => select_hps(space) # {}
    /\ call[p].pc = "generate" => Samples(call[p].hp_list) # {}

\* C18: a decision call never stops halfway and takes a number of steps,
\* and generates a number of candidates, bounded by a function of
\* max_collisions alone; it ends either RUNNING with a value for every
\* hyperparameter of the space or STOPPED with no values, and exhaustion
\* ends it through the STOPPED result.
BoundedRetry ==
    \A p \in Callers :
        /\ call[p].ncand <= CandidateBound
        /\ call[p].nsel <= max_collisions
        /\ call[p].steps <= StepBound
        /\ call[p].pc \notin {"idle", "done"} => CanStep(p)
        /\ call[p].pc = "done" =>
              \/ /\ call[p].status = "RUNNING"
                 /\ call[p].values # None
                 /\ DOMAIN call[p].values[1] = HpNames(space)
              \/ /\ call[p].status = "STOPPED"
                 /\ call[p].values = None
        /\ (call[p].pc = "done" /\ call[p].phase = "greedy" /\ call[p].exhausted)
              => call[p].status = "STOPPED"

\* A call on an exhausted space ends STOPPED having generated as many
\* candidates and taken as many steps as the bounds allow, with
\* max_collisions = 3.
BoundedRetryWitness ==
    \E p \in Callers :
        /\ GreedyDone(p)
        /\ call[p].status = "STOPPED"
        /\ max_collisions = 3
        /\ call[p].ncand = CandidateBound
        /\ call[p].steps = StepBound

----------------------------------------------------------------------------
(* The weights of group selection *)

\* C19: in a trie with more than one node every node has num_leaves >= 1,
\* so that the weight 1 / num_leaves of line 125 is defined and positive
\* for every node.
PositiveLeafCounts ==
    LET all_nodes == nodes(trie)
    IN  Len(all_nodes) > 1 =>
            \A k \in 1..Len(all_nodes) : trie[all_nodes[k]].num_leaves >= 1

\* Three inserts have built a trie of at least four nodes in which one
\* inserted name is a segment-prefix of another.
PositiveLeafCountsWitness ==
    /\ Len(inserted) = 3
    /\ Len(nodes(trie)) >= 4
    /\ trie[<<>>].num_leaves >= 2
    /\ \E j, k \in 1..Len(inserted) :
          /\ j # k
          /\ Split(inserted[j].name) # Split(inserted[k].name)
          /\ Under(Split(inserted[j].name), inserted[k].name)

----------------------------------------------------------------------------
(* Two callers *)

\* Two calls returned the same initial set
SameInitialSetTwice ==
    \E j, k \in 1..Len(results) :
        /\ j < k
        /\ results[j].phase = "initial" /\ results[k].phase = "initial"
        /\ results[j].index # 0
        /\ results[j].index = results[k].index

\* Two greedy-phase calls returned RUNNING with the same value mapping
SameMappingTwice ==
    \E j, k \in 1..Len(results) :
        /\ j < k
        /\ GreedyRunning(results[j]) /\ GreedyRunning(results[k])
        /\ results[j].values = results[k].values

\* C20: when the two callers run each decision call as a whole, one at a
\* time, no initial set is returned by two calls and no value mapping is
\* returned with RUNNING by two greedy-phase calls; without that, their
\* statements interleave and both are reachable.
SerializedCallsDoNotRepeat ==
    mode = "locked" => (~SameInitialSetTwice /\ ~SameMappingTwice)

\* Without the lock, one behaviour has both: the two callers were handed
\* the same initial set, and later the same mapping with RUNNING.
SerializedCallsDoNotRepeatWitness ==
    /\ mode = "unlocked"
    /\ SameInitialSetTwice
    /\ SameMappingTwice

====
